---------------------------- MODULE Spec2Model ----------------------------
(***************************************************************************)
(* The optimistic rollup of keem-hyun/rollup: the L1 ledger                *)
(* (contracts/L1RollupContract.sol) and the off-chain Sequencer            *)
(* (src/services/sequencer.ts) that batches transactions and submits them. *)
(*                                                                         *)
(* Byte strings are sequences of integers.  A uint256 or an address is one *)
(* symbol (a natural number), bytes32(0) is the symbol 0, and keccak256 of *)
(* a byte string is that string between the two bracket symbols -1 and -2, *)
(* so that hashing is collision-free and a packed encoding of fixed-width  *)
(* fields (the concatenation) parses in one way only.                      *)
(*                                                                         *)
(* Time is counted in minutes (CHALLENGE_PERIOD is 5 minutes); the clock   *)
(* is read at the start and then once per challenge period.                *)
(***************************************************************************)
EXTENDS Integers, Sequences, FiniteSets, TLC

(***************************************************************************)
(* Bounds of the model.                                                    *)
(***************************************************************************)
MaxTicks == 2
MaxBatch == 2
MaxTx == 21
MaxCalls == 2
MaxConcTx == 12
MaxNetErrors == 1
MaxCommitLen == 3

(***************************************************************************)
(* Program constants.                                                      *)
(***************************************************************************)
CHALLENGE_PERIOD == 5
BATCH_SIZE == 10
SEVEN_DAYS == 10080

(***************************************************************************)
(* Addresses.  SEQ is the sequencer's signer, BOB any other account that *)
(* calls the ledger, ALICE a user who signs transactions, MALLORY a key    *)
(* that is not ALICE's.  NoSigner stands for a signature from which no     *)
(* address can be recovered.                                               *)
(***************************************************************************)
SEQ == 1
BOB == 2
ALICE == 3
MALLORY == 4
NoSigner == 0

(***************************************************************************)
(* Hashing and packed encoding.                                            *)
(***************************************************************************)
Keccak(bytes) == <<-1>> \o bytes \o <<-2>>

ZeroWord == <<0>>

Uint(n) == <<n>>

\* bytes32 values are compared as numbers in verifyMerkleProof; here: the
\* lexicographic order of the symbol strings, a total order.
RECURSIVE LessEq(_, _)
LessEq(a, b) ==
    IF a = <<>> THEN TRUE
    ELSE IF b = <<>> THEN FALSE
    ELSE IF Head(a) # Head(b) THEN Head(a) < Head(b)
    ELSE LessEq(Tail(a), Tail(b))

\* keccak256(abi.encodePacked(batchNumber, timestamp, previousBatchHash,
\* transactionRoot)) as the ledger computes it.
LedgerBatchHash(h) ==
    Keccak(Uint(h.batchNumber) \o Uint(h.timestamp)
             \o h.previousBatchHash \o h.transactionRoot)

(***************************************************************************)
(* The ledger's storage.                                                   *)
(***************************************************************************)
EmptyHeader ==
    [batchNumber |-> 0, timestamp |-> 0, previousBatchHash |-> ZeroWord,
     transactionRoot |-> ZeroWord, stateRoot |-> ZeroWord]

EmptyContext == [submitter |-> 0, timestamp |-> 0, challengePeriodEnd |-> 0]

EmptyBatch ==
    [header |-> EmptyHeader, context |-> EmptyContext,
     finalized |-> FALSE, challenged |-> FALSE]

Slots == 0..MaxBatch

Calls == 1..MaxCalls

\* the value of a field that was never assigned (undefined)
Undefined == <<-3>>

VARIABLES
    now,                 \* block.timestamp, also read by Date.now()
    batches,             \* mapping(uint256 => Batch)
    latestBatchNumber,   \* uint256
    challenges,          \* mapping(uint256 => mapping(address => bool)), as a set of pairs
    receipt,             \* the latest ledger transaction: its function, and "ok" or its revert reason
    initialized,         \* Sequencer.initialized
    batchNumber,         \* Sequencer.batchNumber
    lastBatchHash,       \* Sequencer.lastBatchHash
    pendingTransactions, \* Sequencer.pendingTransactions
    initPc,              \* position of initialize()
    pc,                  \* position of each addTransaction call
    inflight,            \* the batch each addTransaction call has created
    result,              \* what the latest addTransaction call to finish returned or threw
    adminResult,         \* what the latest Sequencer.submitChallenge call returned or threw
    nextNonce,           \* nonce of the next transaction the users sign
    kAtInit,             \* the ledger's latest batch number read by initialize()
    assembledCount,      \* number of batches createBatch() has built since initialize()
    netErrors,           \* number of submissions that failed on the network
    statusResult,        \* what the latest getBatchStatus call returned or threw
    commitInput,         \* the list a caller passes to calculateTransactionRoot
    commitRoot           \* what calculateTransactionRoot returned for it

ledgerVars == <<batches, latestBatchNumber, challenges>>
seqVars == <<initialized, batchNumber, lastBatchHash, pendingTransactions>>
callVars == <<initPc, pc, inflight, result, nextNonce, kAtInit, assembledCount,
              netErrors>>
queryVars == <<statusResult, commitInput, commitRoot>>
vars == <<now, ledgerVars, receipt, seqVars, callVars, adminResult, queryVars>>

(***************************************************************************)
(* Fraud proofs.  A proof is what abi.decode reads from the bytes:         *)
(* (txHash, txData, StateProof, executionProof); wellFormed is FALSE for   *)
(* bytes that do not decode.  txData decodes as (address, address,         *)
(* uint256, bytes) when it has four fields.                                *)
(***************************************************************************)
TxData == <<ALICE, BOB, 7, 0>>
BadTxData == <<9>>
PreRoot == Keccak(<<11>>)
ExecProof == <<12>>
FraudRoot == Keccak(ExecProof)
SibRoot == Keccak(<<13>>)

MkProof(h, d, pre, post, ap, sp, ep) ==
    [wellFormed |-> TRUE, txHash |-> h, txData |-> d,
     stateProof |-> [preStateRoot |-> pre, postStateRoot |-> post,
                     accountProof |-> ap, storageProof |-> sp],
     executionProof |-> ep]

\* passes every check against a batch whose stateRoot is FraudRoot
GoodProof ==
    MkProof(Keccak(TxData), TxData, PreRoot, FraudRoot,
            <<PreRoot>>, <<FraudRoot>>, ExecProof)

FraudProofs ==
    { GoodProof,
      [GoodProof EXCEPT !.wellFormed = FALSE],
      [GoodProof EXCEPT !.txHash = Keccak(BadTxData)],
      [GoodProof EXCEPT !.txHash = Keccak(BadTxData), !.txData = BadTxData],
      [GoodProof EXCEPT !.stateProof.accountProof = <<>>],
      [GoodProof EXCEPT !.stateProof.accountProof = <<SibRoot>>],
      \* a two-element account proof that resolves to its root
      [GoodProof EXCEPT !.stateProof.accountProof = <<PreRoot, SibRoot>>,
                        !.stateProof.preStateRoot =
                            Keccak(IF LessEq(PreRoot, SibRoot)
                                   THEN PreRoot \o SibRoot
                                   ELSE SibRoot \o PreRoot)],
      [GoodProof EXCEPT !.stateProof.storageProof = <<SibRoot>>],
      [GoodProof EXCEPT !.executionProof = <<14>>],
      \* consistent with a zero stateRoot up to the execution check
      MkProof(Keccak(TxData), TxData, PreRoot, ZeroWord,
              <<PreRoot>>, <<ZeroWord>>, ExecProof) }

\* verifyMerkleProof's loop from position i with running hash c
RECURSIVE MerkleFold(_, _, _)
MerkleFold(proof, i, c) ==
    IF i > Len(proof) THEN c
    ELSE MerkleFold(proof, i + 1,
                    IF LessEq(c, proof[i]) THEN Keccak(c \o proof[i])
                    ELSE Keccak(proof[i] \o c))

\* "panic" when proof[0] is read from an empty array, else whether the
\* computed hash is the root
VerifyMerkleProof(proof, root) ==
    IF Len(proof) = 0 THEN "panic"
    ELSE IF MerkleFold(proof, 2, proof[1]) = root THEN "true" ELSE "false"

VerifyTransactionInclusion(txHash, txRoot, txData) ==
    IF Keccak(txData) # txHash THEN "Invalid transaction hash" ELSE "ok"

VerifyStateTransition(proof, claimedStateRoot) ==
    LET a == VerifyMerkleProof(proof.accountProof, proof.preStateRoot)
        s == VerifyMerkleProof(proof.storageProof, proof.postStateRoot)
    IN  IF a = "panic" THEN "Panic(0x32)"
        ELSE IF a = "false" THEN "Invalid account proof"
        ELSE IF s = "panic" THEN "Panic(0x32)"
        ELSE IF s = "false" THEN "Invalid storage proof"
        ELSE IF claimedStateRoot # proof.postStateRoot THEN "Invalid state root"
        ELSE "ok"

\* the executionHash local of verifyExecution: the hash of the decoded
\* fields and the pre-state root; the function computes it and reads it
\* nowhere
ExecutionHash(txData, preStateRoot) == Keccak(txData \o preStateRoot)

VerifyExecution(txData, stateProof, executionProof) ==
    IF Len(txData) # 4 THEN "abi.decode failed"
    ELSE IF Keccak(executionProof) # stateProof.postStateRoot
         THEN "Execution result mismatch"
         ELSE "ok"

\* "ok", or the reason the first failing require reverts with
VerifyFraudProof(b, n, fp) ==
    IF ~fp.wellFormed THEN "abi.decode failed"
    ELSE LET inc == VerifyTransactionInclusion(fp.txHash,
                        b[n].header.transactionRoot, fp.txData)
             st == VerifyStateTransition(fp.stateProof, b[n].header.stateRoot)
             ex == VerifyExecution(fp.txData, fp.stateProof, fp.executionProof)
         IN  IF inc # "ok" THEN inc
             ELSE IF st # "ok" THEN st
             ELSE ex

(***************************************************************************)
(* The ledger's functions.  Each XReason is "ok" or the reason the call    *)
(* reverts with; a reverted call leaves the storage as it was.  Some       *)
(* functions come with a faulty variant, written before them, that the     *)
(* properties below are meant to tell apart from the code.                 *)
(***************************************************************************)
\* submitBatch without the comparison of previousBatchHash
SubmitBatchReasonNoHashCheck(n, previousBatchHash) ==
    IF n # latestBatchNumber + 1 THEN "Invalid batch number" ELSE "ok"

SubmitBatchReason(n, previousBatchHash) ==
    IF n # latestBatchNumber + 1 THEN "Invalid batch number"
    ELSE IF latestBatchNumber > 0
            /\ previousBatchHash # LedgerBatchHash(batches[latestBatchNumber].header)
         THEN "Invalid previous batch hash"
         ELSE "ok"

StoreBatch(b, sender, n, timestamp, previousBatchHash, transactionRoot, stateRoot) ==
    [b EXCEPT ![n].header =
                  [batchNumber |-> n, timestamp |-> timestamp,
                   previousBatchHash |-> previousBatchHash,
                   transactionRoot |-> transactionRoot, stateRoot |-> stateRoot],
              ![n].context =
                  [submitter |-> sender, timestamp |-> now,
                   challengePeriodEnd |-> now + CHALLENGE_PERIOD]]

SubmitBatch(sender, n, timestamp, previousBatchHash, transactionRoot, stateRoot) ==
    LET r == SubmitBatchReason(n, previousBatchHash) IN
    /\ r = "ok" => n <= MaxBatch
    /\ receipt' = [fn |-> "submitBatch", reason |-> r]
    /\ IF r = "ok"
       THEN /\ batches' = StoreBatch(batches, sender, n, timestamp,
                                     previousBatchHash, transactionRoot, stateRoot)
            /\ latestBatchNumber' = n
       ELSE UNCHANGED <<batches, latestBatchNumber>>
    /\ UNCHANGED challenges

GetLatestBatchHash == LedgerBatchHash(batches[latestBatchNumber].header)

\* a rollback that deletes the challenged batch alone
RollbackBatchSingle(b, latest, n) ==
    [i \in DOMAIN b |-> IF i = n THEN EmptyBatch ELSE b[i]]

\* the loop of rollbackBatch: delete batches[i] for i from latest down to n
RollbackBatch(b, latest, n) ==
    [i \in DOMAIN b |-> IF n <= i /\ i <= latest THEN EmptyBatch ELSE b[i]]

\* finalizeBatch without the require on batch.finalized
FinalizeReasonNoFinalizedCheck(n) ==
    IF ~(n <= latestBatchNumber) THEN "Batch does not exist"
    ELSE IF ~(now > batches[n].context.challengePeriodEnd)
         THEN "Challenge period not ended"
    ELSE IF batches[n].challenged THEN "Batch was challenged"
    ELSE "ok"

\* finalizeBatch without the require on the challenge period
FinalizeReasonNoPeriodCheck(n) ==
    IF ~(n <= latestBatchNumber) THEN "Batch does not exist"
    ELSE IF batches[n].finalized THEN "Already finalized"
    ELSE IF batches[n].challenged THEN "Batch was challenged"
    ELSE "ok"

FinalizeReason(n) ==
    IF ~(n <= latestBatchNumber) THEN "Batch does not exist"
    ELSE IF batches[n].finalized THEN "Already finalized"
    ELSE IF ~(now > batches[n].context.challengePeriodEnd)
         THEN "Challenge period not ended"
    ELSE IF batches[n].challenged THEN "Batch was challenged"
    ELSE "ok"

FinalizeBatch(sender, n) ==
    LET r == FinalizeReason(n) IN
    /\ receipt' = [fn |-> "finalizeBatch", reason |-> r]
    /\ IF r = "ok"
       THEN batches' = [batches EXCEPT ![n].finalized = TRUE]
       ELSE UNCHANGED batches
    /\ UNCHANGED <<latestBatchNumber, challenges>>

\* submitChallenge without the require on challenges[batchNumber][msg.sender]
ChallengePreconditionReasonNoAddressCheck(sender, n) ==
    IF ~(n <= latestBatchNumber) THEN "Batch does not exist"
    ELSE IF batches[n].finalized THEN "Batch already finalized"
    ELSE IF ~(now <= batches[n].context.challengePeriodEnd)
         THEN "Challenge period ended"
    ELSE IF batches[n].challenged THEN "Already challenged"
    ELSE "ok"

ChallengePreconditionReason(sender, n) ==
    IF ~(n <= latestBatchNumber) THEN "Batch does not exist"
    ELSE IF batches[n].finalized THEN "Batch already finalized"
    ELSE IF ~(now <= batches[n].context.challengePeriodEnd)
         THEN "Challenge period ended"
    ELSE IF batches[n].challenged THEN "Already challenged"
    ELSE IF <<n, sender>> \in challenges THEN "Already challenged by this address"
    ELSE "ok"

\* rollbackBatch(0) underflows (i-- at 0, batchNumber - 1) and reverts
ChallengeReason(sender, n, fp) ==
    LET p == ChallengePreconditionReason(sender, n) IN
    IF p # "ok" THEN p
    ELSE LET v == VerifyFraudProof(batches, n, fp) IN
         IF v # "ok" THEN v
         ELSE IF n = 0 THEN "Panic(0x11)"
         ELSE "ok"

\* a submitChallenge that marks the batch challenged and does not call
\* rollbackBatch
SubmitChallengeNoRollback(sender, n, fp) ==
    LET r == ChallengeReason(sender, n, fp) IN
    /\ receipt' = [fn |-> "submitChallenge", reason |-> r]
    /\ IF r = "ok"
       THEN /\ batches' = [batches EXCEPT ![n].challenged = TRUE]
            /\ challenges' = challenges \cup {<<n, sender>>}
            /\ UNCHANGED latestBatchNumber
       ELSE UNCHANGED <<batches, challenges, latestBatchNumber>>

\* a submitChallenge that records the challenger before verifyFraudProof and
\* returns, rather than reverts, when the proof fails
SubmitChallengeRecordsFirst(sender, n, fp) ==
    LET r == ChallengeReason(sender, n, fp) IN
    /\ receipt' = [fn |-> "submitChallenge", reason |-> r]
    /\ IF r = "ok"
       THEN /\ batches' = RollbackBatch([batches EXCEPT ![n].challenged = TRUE],
                                        latestBatchNumber, n)
            /\ challenges' = challenges \cup {<<n, sender>>}
            /\ latestBatchNumber' = n - 1
       ELSE IF ChallengePreconditionReason(sender, n) = "ok"
       THEN /\ challenges' = challenges \cup {<<n, sender>>}
            /\ UNCHANGED <<batches, latestBatchNumber>>
       ELSE UNCHANGED <<batches, challenges, latestBatchNumber>>

SubmitChallenge(sender, n, fp) ==
    LET r == ChallengeReason(sender, n, fp) IN
    /\ receipt' = [fn |-> "submitChallenge", reason |-> r]
    /\ IF r = "ok"
       THEN /\ batches' = RollbackBatch([batches EXCEPT ![n].challenged = TRUE],
                                        latestBatchNumber, n)
            /\ challenges' = challenges \cup {<<n, sender>>}
            /\ latestBatchNumber' = n - 1
       ELSE UNCHANGED <<batches, challenges, latestBatchNumber>>


(***************************************************************************)
(* The Sequencer's pure functions.                                         *)
(***************************************************************************)
\* data and signature are byte strings of any length, counted in words.
\* ethers.verifyMessage recovers an address from a signature of the right
\* length (one word here, holding that address) and throws on any other
Recover(signature) ==
    IF Len(signature) = 1 THEN signature[1] ELSE NoSigner

\* a transaction of ALICE's with empty data, signed by signer (NoSigner: a
\* malformed signature)
Tx(nonce, signer) ==
    [from |-> ALICE, to |-> BOB, value |-> 0, data |-> <<>>, nonce |-> nonce,
     signature |-> <<signer>>]

\* a validateTransaction that accepts any signature an address is recovered
\* from
ValidateTransactionAnySigner(tx) ==
    IF Recover(tx.signature) = NoSigner THEN FALSE ELSE TRUE

ValidateTransaction(tx) ==
    IF Recover(tx.signature) = NoSigner THEN FALSE
    ELSE IF Recover(tx.signature) # tx.from THEN FALSE
    ELSE TRUE

\* solidityPacked(address, address, uint256, bytes, uint256, bytes): the
\* fixed-width fields one word each, the two bytes fields as they are,
\* without their lengths
Leaf(tx) ==
    Keccak(<<tx.from, tx.to, tx.value>> \o tx.data \o <<tx.nonce>> \o tx.signature)

\* a pass that puts the smaller node of each pair first, as verifyMerkleProof
\* does
NextLayerCanonical(layer) ==
    [k \in 1..((Len(layer) + 1) \div 2) |->
        LET left == layer[2 * k - 1]
            right == IF 2 * k <= Len(layer) THEN layer[2 * k] ELSE left
        IN  IF LessEq(left, right) THEN Keccak(left \o right)
            ELSE Keccak(right \o left)]

\* one pass of the for loop: pair the nodes, an odd last node with itself
NextLayer(layer) ==
    [k \in 1..((Len(layer) + 1) \div 2) |->
        LET left == layer[2 * k - 1]
            right == IF 2 * k <= Len(layer) THEN layer[2 * k] ELSE left
        IN  Keccak(left \o right)]

RECURSIVE TopLayer(_)
TopLayer(layer) == IF Len(layer) > 1 THEN TopLayer(NextLayer(layer)) ELSE layer

\* layers[0][0]: undefined when there is no leaf
CalculateTransactionRoot(transactions) ==
    LET top == TopLayer([i \in 1..Len(transactions) |-> Leaf(transactions[i])])
    IN  IF Len(top) = 0 THEN Undefined ELSE top[1]

\* solidityPacked's 'string': the UTF-8 bytes of the text "0x..." of a hash,
\* the characters '0' and 'x' and then one character code per symbol
StringBytes(hash) == <<48, 120>> \o [i \in 1..Len(hash) |-> 1000 + hash[i]]

CalculateBatchHash(batch) ==
    Keccak(Uint(batch.header.batchNumber) \o Uint(batch.header.timestamp)
             \o StringBytes(batch.header.previousBatchHash)
             \o StringBytes(batch.header.transactionRoot))

CreateBatch(pending) ==
    [header |-> [batchNumber |-> batchNumber, timestamp |-> now,
                 previousBatchHash |-> lastBatchHash,
                 transactionRoot |-> CalculateTransactionRoot(pending)],
     context |-> [submitter |-> SEQ, timestamp |-> now,
                  challengePeriodEnd |-> now + SEVEN_DAYS],
     transactions |-> pending]

NoBatch ==
    [header |-> [batchNumber |-> 0, timestamp |-> 0,
                 previousBatchHash |-> Undefined, transactionRoot |-> Undefined],
     context |-> EmptyContext, transactions |-> <<>>]

(***************************************************************************)
(* Initial state: the contract as deployed, the Sequencer as constructed.  *)
(***************************************************************************)
NoReceipt == [fn |-> "none", reason |-> "none"]

NoStatus == [value |-> "none", ledgerRead |-> FALSE]
NotComputed == <<-4>>

\* the contract as deployed and the Sequencer as constructed
Constructed ==
    /\ now = 1
    /\ batches = [i \in Slots |-> EmptyBatch]
    /\ latestBatchNumber = 0
    /\ challenges = {}
    /\ receipt = NoReceipt
    /\ initialized = FALSE
    /\ batchNumber = 0
    /\ lastBatchHash = Undefined
    /\ pendingTransactions = <<>>
    /\ initPc = "start"
    /\ pc = [c \in Calls |-> "idle"]
    /\ inflight = [c \in Calls |-> NoBatch]
    /\ result = "none"
    /\ adminResult = "none"
    /\ nextNonce = 1
    /\ kAtInit = 0
    /\ assembledCount = 0
    /\ netErrors = 0
    /\ statusResult = NoStatus

Init ==
    /\ Constructed
    /\ commitInput = <<>>
    /\ commitRoot = NotComputed

(***************************************************************************)
(* Time passes.                                                            *)
(***************************************************************************)
Tick ==
    /\ UNCHANGED queryVars
    /\ now < 1 + MaxTicks * CHALLENGE_PERIOD
    /\ now' = now + CHALLENGE_PERIOD
    /\ UNCHANGED <<ledgerVars, receipt, seqVars, callVars, adminResult>>

(***************************************************************************)
(* Sequencer.initialize(): two awaited reads of the ledger.                *)
(***************************************************************************)
InitializeGetNumber ==
    /\ UNCHANGED queryVars
    /\ initPc = "start"
    /\ batchNumber' = latestBatchNumber + 1
    /\ kAtInit' = latestBatchNumber
    /\ initPc' = "gotNumber"
    /\ UNCHANGED <<now, ledgerVars, receipt, initialized, lastBatchHash,
                   pendingTransactions, pc, inflight, result, nextNonce,
                   assembledCount, netErrors, adminResult>>

InitializeGetHash ==
    /\ UNCHANGED queryVars
    /\ initPc = "gotNumber"
    /\ lastBatchHash' = GetLatestBatchHash
    /\ initialized' = TRUE
    /\ initPc' = "done"
    /\ UNCHANGED <<now, ledgerVars, receipt, batchNumber, pendingTransactions,
                   pc, inflight, result, nextNonce, kAtInit, assembledCount,
                   netErrors, adminResult>>

(***************************************************************************)
(* Sequencer.addTransaction(tx), called in slot c.  Up to the call of      *)
(* l1Contract.submitBatch nothing waits on I/O, so validation, the push    *)
(* and createBatch() are one step.                                         *)
(***************************************************************************)
\* an addTransaction that assembles only once the Mempool holds more than
\* BATCH_SIZE transactions
AddTransactionAboveThreshold(c, tx) ==
    /\ UNCHANGED queryVars
    /\ pc[c] = "idle"
    /\ UNCHANGED <<now, ledgerVars, receipt, initialized, batchNumber,
                   lastBatchHash, initPc, kAtInit, netErrors, adminResult>>
    /\ IF ~initialized
       THEN /\ result' = "Sequencer not initialized"
            /\ UNCHANGED <<pendingTransactions, pc, inflight, nextNonce, assembledCount>>
       ELSE IF ~ValidateTransaction(tx)
       THEN /\ result' = "Invalid transaction"
            /\ UNCHANGED <<pendingTransactions, pc, inflight, nextNonce, assembledCount>>
       ELSE LET pending == Append(pendingTransactions, tx) IN
            /\ pendingTransactions' = pending
            /\ nextNonce' = nextNonce + 1
            /\ IF Len(pending) > BATCH_SIZE
               THEN /\ inflight' = [inflight EXCEPT ![c] = CreateBatch(pending)]
                    /\ pc' = [pc EXCEPT ![c] = "submitting"]
                    /\ UNCHANGED result
                    /\ assembledCount' = assembledCount + 1
               ELSE /\ result' = "ok"
                    /\ UNCHANGED <<pc, inflight, assembledCount>>

AddTransaction(c, tx) ==
    /\ UNCHANGED queryVars
    /\ pc[c] = "idle"
    /\ UNCHANGED <<now, ledgerVars, receipt, initialized, batchNumber,
                   lastBatchHash, initPc, kAtInit, netErrors, adminResult>>
    /\ IF ~initialized
       THEN /\ result' = "Sequencer not initialized"
            /\ UNCHANGED <<pendingTransactions, pc, inflight, nextNonce, assembledCount>>
       ELSE IF ~ValidateTransaction(tx)
       THEN /\ result' = "Invalid transaction"
            /\ UNCHANGED <<pendingTransactions, pc, inflight, nextNonce, assembledCount>>
       ELSE LET pending == Append(pendingTransactions, tx) IN
            /\ pendingTransactions' = pending
            /\ nextNonce' = nextNonce + 1
            /\ IF Len(pending) >= BATCH_SIZE
               THEN /\ inflight' = [inflight EXCEPT ![c] = CreateBatch(pending)]
                    /\ pc' = [pc EXCEPT ![c] = "submitting"]
                    /\ UNCHANGED result
                    /\ assembledCount' = assembledCount + 1
               ELSE /\ result' = "ok"
                    /\ UNCHANGED <<pc, inflight, assembledCount>>

\* the ledger executes the submitBatch transaction of call c
SendSubmitBatch(c) ==
    /\ UNCHANGED queryVars
    /\ pc[c] = "submitting"
    /\ SubmitBatch(SEQ, inflight[c].header.batchNumber, inflight[c].header.timestamp,
                   inflight[c].header.previousBatchHash,
                   inflight[c].header.transactionRoot, ZeroWord)
    /\ pc' = [pc EXCEPT ![c] = IF receipt'.reason = "ok" THEN "mined" ELSE "reverted"]
    /\ UNCHANGED <<now, seqVars, initPc, inflight, result, nextNonce, kAtInit,
                   assembledCount, netErrors, adminResult>>

\* the receipt arrived with status 1: createAndSubmitBatch updates the state
AckSubmitBatch(c) ==
    /\ UNCHANGED queryVars
    /\ pc[c] = "mined"
    /\ lastBatchHash' = CalculateBatchHash(inflight[c])
    /\ batchNumber' = batchNumber + 1
    /\ pendingTransactions' = <<>>
    /\ pc' = [pc EXCEPT ![c] = "idle"]
    /\ inflight' = [inflight EXCEPT ![c] = NoBatch]
    /\ result' = "ok"
    /\ UNCHANGED <<now, ledgerVars, receipt, initialized, initPc, nextNonce,
                   kAtInit, assembledCount, netErrors, adminResult>>

\* the network fails before the transaction is sent, or before its receipt
\* arrives: l1Contract.submitBatch or tx.wait() rejects
NetworkError(c) ==
    /\ UNCHANGED queryVars
    /\ pc[c] \in {"submitting", "mined"}
    /\ netErrors < MaxNetErrors
    /\ netErrors' = netErrors + 1
    /\ pc' = [pc EXCEPT ![c] = "neterror"]
    /\ UNCHANGED <<now, ledgerVars, receipt, seqVars, initPc, inflight, result,
                   nextNonce, kAtInit, assembledCount, adminResult>>

\* a catch block that drops the pending transactions before it rethrows
ThrowSubmitBatchClearsPending(c) ==
    /\ UNCHANGED queryVars
    /\ pc[c] \in {"reverted", "neterror"}
    /\ pc' = [pc EXCEPT ![c] = "idle"]
    /\ inflight' = [inflight EXCEPT ![c] = NoBatch]
    /\ result' = "Failed to submit batch to L1"
    /\ pendingTransactions' = <<>>
    /\ UNCHANGED <<now, ledgerVars, receipt, initialized, batchNumber,
                   lastBatchHash, initPc, nextNonce, kAtInit, assembledCount,
                   netErrors, adminResult>>

\* the catch block of submitBatchToL1 rethrows, and addTransaction's caller
\* gets the error
ThrowSubmitBatch(c) ==
    /\ UNCHANGED queryVars
    /\ pc[c] \in {"reverted", "neterror"}
    /\ pc' = [pc EXCEPT ![c] = "idle"]
    /\ inflight' = [inflight EXCEPT ![c] = NoBatch]
    /\ result' = "Failed to submit batch to L1"
    /\ UNCHANGED <<now, ledgerVars, receipt, seqVars, initPc, nextNonce,
                   kAtInit, assembledCount, netErrors, adminResult>>

(***************************************************************************)
(* Sequencer.getBatchStatus.  value is "null", "pending" for the record    *)
(* built from the Mempool, "stored" for the record read from the ledger,   *)
(* or the error thrown; ledgerRead tells whether l1Contract.batches was    *)
(* called.                                                                 *)
(***************************************************************************)
StatusQueries == 0..(MaxBatch + 1)

\* a getBatchStatus without the early return for numbers above batchNumber
GetBatchStatusNoEarlyReturn(n) ==
    /\ statusResult' =
          IF ~initialized
          THEN [value |-> "Failed to get batch status", ledgerRead |-> FALSE]
          ELSE IF n = batchNumber /\ Len(pendingTransactions) > 0
               THEN [value |-> "pending", ledgerRead |-> FALSE]
          ELSE [value |-> "stored", ledgerRead |-> TRUE]
    /\ UNCHANGED <<now, ledgerVars, receipt, seqVars, callVars, adminResult,
                   commitInput, commitRoot>>

GetBatchStatus(n) ==
    /\ statusResult' =
          IF ~initialized
          THEN [value |-> "Failed to get batch status", ledgerRead |-> FALSE]
          ELSE IF n > batchNumber
               THEN [value |-> "null", ledgerRead |-> FALSE]
          ELSE IF n = batchNumber /\ Len(pendingTransactions) > 0
               THEN [value |-> "pending", ledgerRead |-> FALSE]
          ELSE [value |-> "stored", ledgerRead |-> TRUE]
    /\ UNCHANGED <<now, ledgerVars, receipt, seqVars, callVars, adminResult,
                   commitInput, commitRoot>>

(***************************************************************************)
(* Sequencer.submitChallenge: the ledger call signed by SEQ, its error     *)
(* rethrown to the caller.                                                 *)
(***************************************************************************)
SeqSubmitChallenge(n, fp) ==
    /\ UNCHANGED queryVars
    /\ SubmitChallenge(SEQ, n, fp)
    /\ adminResult' = IF receipt'.reason = "ok" THEN "ok"
                      ELSE "Failed to submit challenge"
    /\ UNCHANGED <<now, seqVars, callVars>>

(***************************************************************************)
(* An account calls the ledger directly.                                   *)
(***************************************************************************)
ExtRoot == Keccak(<<15>>)

CallSubmitBatch(sender, n, previousBatchHash, stateRoot) ==
    /\ UNCHANGED queryVars
    /\ SubmitBatch(sender, n, now, previousBatchHash, ExtRoot, stateRoot)
    /\ UNCHANGED <<now, seqVars, callVars, adminResult>>

CallSubmitChallenge(sender, n, fp) ==
    /\ UNCHANGED queryVars
    /\ SubmitChallenge(sender, n, fp)
    /\ UNCHANGED <<now, seqVars, callVars, adminResult>>

CallFinalizeBatch(sender, n) ==
    /\ UNCHANGED queryVars
    /\ FinalizeBatch(sender, n)
    /\ UNCHANGED <<now, seqVars, callVars, adminResult>>

\* the previous-batch hashes a caller passes: the right one, and a wrong one
\* where the ledger compares it
PrevHashInputs ==
    IF latestBatchNumber = 0 THEN {GetLatestBatchHash}
    ELSE {GetLatestBatchHash, ZeroWord}

(***************************************************************************)
(* Spec: the Sequencer's pipeline with one addTransaction call at a time   *)
(* (the caller awaits each call).  Another account has written the ledger  *)
(* before the Sequencer starts; afterwards the Sequencer alone calls it.   *)
(***************************************************************************)
Signers == {ALICE, MALLORY, NoSigner}

Next ==
    \/ Tick
    \/ /\ initPc = "start"
       /\ \E n \in Slots, h \in PrevHashInputs : CallSubmitBatch(BOB, n, h, FraudRoot)
    \/ InitializeGetNumber
    \/ InitializeGetHash
    \/ \E s \in Signers : nextNonce <= MaxTx /\ AddTransaction(1, Tx(nextNonce, s))
    \/ SendSubmitBatch(1)
    \/ AckSubmitBatch(1)
    \/ NetworkError(1)
    \/ ThrowSubmitBatch(1)

Spec == Init /\ [][Next]_vars

(***************************************************************************)
(* ConcurrentSpec: addTransaction calls that overlap.  A new call takes    *)
(* the lowest free slot.                                                   *)
(***************************************************************************)
FreeSlot(c) == pc[c] = "idle" /\ \A d \in Calls : d < c => pc[d] # "idle"

ConcurrentNext ==
    \/ InitializeGetNumber
    \/ InitializeGetHash
    \/ \E c \in Calls, s \in Signers :
          nextNonce <= MaxConcTx /\ FreeSlot(c) /\ AddTransaction(c, Tx(nextNonce, s))
    \/ \E c \in Calls : SendSubmitBatch(c)
    \/ \E c \in Calls : AckSubmitBatch(c)
    \/ \E c \in Calls : NetworkError(c)
    \/ \E c \in Calls : ThrowSubmitBatch(c)
    \/ \E n \in StatusQueries : GetBatchStatus(n)

ConcurrentSpec == Init /\ [][ConcurrentNext]_vars

(***************************************************************************)
(* LedgerSpec: the ledger under direct calls.                              *)
(***************************************************************************)
LedgerNext ==
    \/ Tick
    \/ \E n \in Slots, h \in PrevHashInputs : CallSubmitBatch(BOB, n, h, FraudRoot)
    \/ \E n \in Slots, fp \in FraudProofs : CallSubmitChallenge(BOB, n, fp)
    \/ \E n \in Slots : CallFinalizeBatch(BOB, n)

LedgerSpec == Init /\ [][LedgerNext]_vars

(***************************************************************************)
(* ChallengeSpec: the Sequencer's submitChallenge, before and after        *)
(* initialize, against a ledger that another account has submitted batches *)
(* to before the Sequencer starts.                                         *)
(***************************************************************************)
ChallengeNext ==
    \/ Tick
    \/ /\ initPc = "start"
       /\ \E n \in Slots, h \in PrevHashInputs : CallSubmitBatch(BOB, n, h, FraudRoot)
    \/ InitializeGetNumber
    \/ InitializeGetHash
    \/ \E n \in Slots, fp \in FraudProofs : SeqSubmitChallenge(n, fp)

ChallengeSpec == Init /\ [][ChallengeNext]_vars

(***************************************************************************)
(* CommitSpec: calculateTransactionRoot called, as the tests call it, on a *)
(* list of pairwise different transactions.                                *)
(***************************************************************************)
\* two transactions whose data, nonce and signature differ and pack to the
\* same bytes
SplitA ==
    [from |-> ALICE, to |-> BOB, value |-> 0, data |-> <<>>, nonce |-> 5,
     signature |-> <<7, 8>>]
SplitB ==
    [from |-> ALICE, to |-> BOB, value |-> 0, data |-> <<5>>, nonce |-> 7,
     signature |-> <<8>>]

CommitPool == {Tx(1, ALICE), Tx(2, ALICE), Tx(3, ALICE), SplitA, SplitB}

CommitInputs ==
    {q \in UNION {[1..n -> CommitPool] : n \in 0..MaxCommitLen} :
        \A i \in 1..Len(q), j \in 1..Len(q) : i # j => q[i] # q[j]}

CommitInit ==
    /\ Constructed
    /\ commitInput \in CommitInputs
    /\ commitRoot = NotComputed

Commit ==
    /\ commitRoot = NotComputed
    /\ commitRoot' = CalculateTransactionRoot(commitInput)
    /\ UNCHANGED <<now, ledgerVars, receipt, seqVars, callVars, adminResult,
                   statusResult, commitInput>>

CommitNext == Commit

CommitSpec == CommitInit /\ [][CommitNext]_vars

(***************************************************************************)
(* LiveSpec: the pipeline of Spec on a fresh ledger that the Sequencer     *)
(* alone calls, with ledger calls that always complete: no network error,  *)
(* and every awaited call of the Sequencer goes on (weak fairness of the   *)
(* steps that follow an await).  The users send transactions as they like. *)
(***************************************************************************)
LiveNext ==
    \/ Tick
    \/ InitializeGetNumber
    \/ InitializeGetHash
    \/ \E s \in Signers : nextNonce <= MaxTx /\ AddTransaction(1, Tx(nextNonce, s))
    \/ SendSubmitBatch(1)
    \/ AckSubmitBatch(1)
    \/ ThrowSubmitBatch(1)

LiveSpec ==
    /\ Init
    /\ [][LiveNext]_vars
    /\ WF_vars(InitializeGetHash)
    /\ WF_vars(SendSubmitBatch(1))
    /\ WF_vars(AckSubmitBatch(1))
    /\ WF_vars(ThrowSubmitBatch(1))

(***************************************************************************)
(* Properties of the ledger, under LedgerSpec.                             *)
(***************************************************************************)

\* C2: on the ledger, every stored batch after the first carries as
\* previousBatchHash the ledger's hash of the header of the batch stored one
\* number below it, rollbacks and re-submissions included.
C2_HashChain ==
    \A i \in 1..(latestBatchNumber - 1) :
        batches[i + 1].header.previousBatchHash = LedgerBatchHash(batches[i].header)

\* two chained batches stored again after a rollback
C2_Witness ==
    /\ latestBatchNumber = 2
    /\ challenges # {}
    /\ batches[2].header.previousBatchHash = LedgerBatchHash(batches[1].header)

\* C4: a challenge accepted against batch i removes every batch numbered i
\* to the latest, leaves the batches below i as they were and sets
\* latestBatchNumber to i - 1, so that the next accepted batch is number i.
C4_RollbackCascade ==
    [][\A i \in Slots :
          (<<i, BOB>> \in challenges' /\ <<i, BOB>> \notin challenges)
          => /\ latestBatchNumber' = i - 1
             /\ \A j \in Slots :
                   /\ (i <= j /\ j <= latestBatchNumber) => batches'[j] = EmptyBatch
                   /\ j < i => batches'[j] = batches[j]
                   /\ j > latestBatchNumber' => batches'[j] = EmptyBatch]_vars

\* a challenge against batch 1 has been accepted and nothing is stored
C4_Witness ==
    /\ receipt = [fn |-> "submitChallenge", reason |-> "ok"]
    /\ <<1, BOB>> \in challenges
    /\ latestBatchNumber = 0
    /\ batches[1] = EmptyBatch /\ batches[2] = EmptyBatch

\* C6: finalizeBatch on an existing batch succeeds exactly when the batch is
\* not finalized, the time is past its challenge period end and it is not
\* marked challenged; a refused call changes no batch, an accepted one marks
\* the batch finalized and nothing else.
C6_FinalizeRefusals ==
    [][\A n \in Slots :
          (1 <= n /\ n <= latestBatchNumber /\ CallFinalizeBatch(BOB, n))
          => LET allowed == /\ ~batches[n].finalized
                            /\ now > batches[n].context.challengePeriodEnd
                            /\ ~batches[n].challenged
             IN  /\ (receipt'.reason = "ok") <=> allowed
                 /\ ~allowed => UNCHANGED <<batches, latestBatchNumber, challenges>>
                 /\ allowed => batches' = [batches EXCEPT ![n].finalized = TRUE]]_vars

\* finalizeBatch has been refused on a batch already finalized
C6_Witness ==
    /\ receipt = [fn |-> "finalizeBatch", reason |-> "Already finalized"]
    /\ \E n \in 1..latestBatchNumber : batches[n].finalized

\* C7: a finalized batch never changes again (it is neither rolled back nor
\* un-finalized), and a slot above latestBatchNumber, where rolled-back
\* batches were, never holds a finalized batch.
C7_TerminalStates ==
    [][/\ \A n \in Slots : batches[n].finalized => batches'[n] = batches[n]
       /\ \A n \in Slots : n > latestBatchNumber' => ~batches'[n].finalized]_vars

\* batch 1 is finalized and a later batch has been rolled back above it
C7_Witness ==
    /\ batches[1].finalized
    /\ receipt = [fn |-> "submitChallenge", reason |-> "ok"]
    /\ latestBatchNumber = 1
    /\ batches[2] = EmptyBatch

\* C8: in every state, submitChallenge on a batch that does not exist, is
\* finalized, is past its challenge period, is marked challenged or was
\* already challenged by the sender reverts at one of the five requires that
\* precede the call of verifyFraudProof, whatever the fraud proof.
C8_ChallengePreconditions ==
    \A n \in Slots, fp \in FraudProofs :
        LET refused == \/ ~(1 <= n /\ n <= latestBatchNumber)
                       \/ batches[n].finalized
                       \/ now > batches[n].context.challengePeriodEnd
                       \/ batches[n].challenged
                       \/ <<n, BOB>> \in challenges
        IN  refused => ChallengeReason(BOB, n, fp) \in
                          {"Batch does not exist", "Batch already finalized",
                           "Challenge period ended", "Already challenged",
                           "Already challenged by this address"}

\* a second challenge by the same address on a re-submitted batch is refused
C8_Witness ==
    /\ receipt = [fn |-> "submitChallenge",
                  reason |-> "Already challenged by this address"]
    /\ \E n \in 1..latestBatchNumber : <<n, BOB>> \in challenges

(***************************************************************************)
(* Properties of the Sequencer's submitChallenge, under ChallengeSpec.     *)
(***************************************************************************)

\* C5: when a challenge sent through Sequencer.submitChallenge is accepted
\* against batch i, the initialized Sequencer's batchNumber becomes i.
C5_BatchNumberReset ==
    [][\A i \in Slots :
          (/\ initPc = "done"
           /\ <<i, SEQ>> \in challenges' /\ <<i, SEQ>> \notin challenges)
          => batchNumber' = i]_vars

\* C9: a refused Sequencer.submitChallenge, whether a require of
\* submitChallenge or a check of verifyFraudProof refuses it, leaves the
\* ledger's batches, latestBatchNumber and challenge records and the
\* Sequencer's batchNumber, lastBatchHash and pendingTransactions as they
\* were, and the caller gets the error.
C9_RejectedChallengeFrame ==
    [][(receipt'.fn = "submitChallenge" /\ receipt'.reason # "ok"
        /\ <<receipt, adminResult>>' # <<receipt, adminResult>>)
       => /\ UNCHANGED <<batches, latestBatchNumber, challenges>>
          /\ UNCHANGED <<batchNumber, lastBatchHash, pendingTransactions>>
          /\ adminResult' = "Failed to submit challenge"]_vars

\* verifyFraudProof has refused a challenge of the initialized Sequencer
\* against a stored batch
C9_Witness ==
    /\ initPc = "done"
    /\ receipt = [fn |-> "submitChallenge", reason |-> "Invalid account proof"]
    /\ adminResult = "Failed to submit challenge"
    /\ latestBatchNumber >= 1

(***************************************************************************)
(* Properties of the Sequencer's pipeline, under Spec.                     *)
(***************************************************************************)

\* C1: with the ledger's latest batch number k at initialize and no network
\* error, the j-th batch the Sequencer assembles carries batchNumber k + j.
C1_SequentialNumbering ==
    \A c \in Calls :
        (pc[c] = "submitting" /\ netErrors = 0)
        => inflight[c].header.batchNumber = kAtInit + assembledCount

\* C3: when a submission is acknowledged, the lastBatchHash the Sequencer
\* keeps is the hash the ledger computes for the header it stored under that
\* batch number, which is what the ledger requires as the next
\* previousBatchHash.
C3_LocalHashMatchesLedger ==
    [][\A c \in Calls :
          (pc[c] = "mined" /\ pc'[c] = "idle")
          => lastBatchHash' =
                LedgerBatchHash(batches[inflight[c].header.batchNumber].header)]_vars

\* C10: when a submission was rejected by the ledger or failed on the
\* network, the call ends there: the caller gets the error, batchNumber,
\* lastBatchHash and pendingTransactions are what createBatch read when it
\* built the batch, and nothing more is sent to the ledger.
C10_FailedSubmissionFrame ==
    [][\A c \in Calls :
          (pc[c] \in {"reverted", "neterror"} /\ pc'[c] # pc[c])
          => /\ pc'[c] = "idle"
             /\ result' = "Failed to submit batch to L1"
             /\ UNCHANGED <<batchNumber, lastBatchHash, pendingTransactions>>
             /\ batchNumber' = inflight[c].header.batchNumber
             /\ lastBatchHash' = inflight[c].header.previousBatchHash
             /\ pendingTransactions' = inflight[c].transactions
             /\ UNCHANGED <<batches, latestBatchNumber, challenges, receipt>>]_vars

\* a call has ended with the error after a network failure, the ten
\* transactions of its batch still pending
C10_Witness ==
    /\ pc[1] = "idle"
    /\ result = "Failed to submit batch to L1"
    /\ netErrors = 1
    /\ Len(pendingTransactions) = BATCH_SIZE
    /\ batchNumber = kAtInit + 1

(***************************************************************************)
(* Properties of overlapping addTransaction calls, under ConcurrentSpec.   *)
(***************************************************************************)

\* C11: at any time at most one addTransaction call has a submitBatch call
\* outstanding, and no two batches in flight carry the same batchNumber.
C11_SerializedSubmission ==
    \A c \in Calls, d \in Calls :
        (c # d /\ pc[c] # "idle")
        => /\ pc[d] = "idle"
           /\ inflight[c].header.batchNumber # inflight[d].header.batchNumber

(***************************************************************************)
(* Properties of admission, under Spec.                                    *)
(***************************************************************************)

\* C12: addTransaction with a transaction whose signature recovers to an
\* address other than its from, or to none, fails with "Invalid
\* transaction", leaves pendingTransactions, batchNumber and lastBatchHash
\* as they were, assembles no batch and makes no ledger call.
C12_InvalidSignerRejected ==
    [][\A c \in Calls, s \in Signers :
          LET tx == Tx(nextNonce, s) IN
          (initialized /\ tx.signature # <<tx.from>> /\ AddTransaction(c, tx))
          => /\ result' = "Invalid transaction"
             /\ UNCHANGED <<pendingTransactions, batchNumber, lastBatchHash>>
             /\ pc'[c] = "idle"
             /\ assembledCount' = assembledCount
             /\ UNCHANGED <<batches, latestBatchNumber, challenges, receipt>>]_vars

\* a transaction signed by another address has been refused and the
\* Mempool of the initialized Sequencer is still empty
C12_Witness ==
    /\ initialized
    /\ result = "Invalid transaction"
    /\ pendingTransactions = <<>>
    /\ assembledCount = 0

\* C13: the initialized Sequencer, its Mempool empty, assembles no batch
\* while fewer than BATCH_SIZE valid transactions have been admitted and
\* exactly one at the tenth admission; that batch holds the ten
\* transactions in the order of admission, and the acknowledgement of its
\* submission leaves the Mempool empty.
C13_TenTransactionScenario ==
    [][/\ nextNonce' <= BATCH_SIZE
          => /\ assembledCount' = 0
             /\ pc'[1] = "idle"
             /\ Len(pendingTransactions') = nextNonce' - 1
       /\ nextNonce' = BATCH_SIZE + 1 => assembledCount' = 1
       /\ (assembledCount' = 1 /\ pc'[1] # "idle")
          => inflight'[1].transactions = [i \in 1..BATCH_SIZE |-> Tx(i, ALICE)]
       /\ (assembledCount = 1 /\ pc[1] = "mined" /\ pc'[1] = "idle")
          => pendingTransactions' = <<>>]_vars

\* the batch of the first ten transactions has been acknowledged
C13_Witness ==
    /\ assembledCount = 1
    /\ nextNonce = BATCH_SIZE + 1
    /\ pc[1] = "idle"
    /\ result = "ok"
    /\ pendingTransactions = <<>>
    /\ batchNumber = kAtInit + 2

(***************************************************************************)
(* Properties of calculateTransactionRoot, under CommitSpec.               *)
(***************************************************************************)

\* C14: calculateTransactionRoot of the empty list is the hash of the empty
\* byte string.
C14_EmptyListRoot ==
    (commitRoot # NotComputed /\ commitInput = <<>>) => commitRoot = Keccak(<<>>)

\* C15 as stated: the root of a list of pairwise different transactions
\* differs from the root of every other ordering of the same transactions.
C15_OrderSensitive ==
    commitRoot # NotComputed
    => \A q \in CommitInputs :
          (/\ q # commitInput
           /\ Len(q) = Len(commitInput)
           /\ {q[i] : i \in 1..Len(q)} = {commitInput[i] : i \in 1..Len(q)})
          => CalculateTransactionRoot(q) # commitRoot

\* C15, amended: the root of a list of transactions whose packed encodings
\* are pairwise different differs from the root of every other ordering of
\* the same transactions.
C15_OrderSensitiveDistinctLeaves ==
    (/\ commitRoot # NotComputed
     /\ \A i \in 1..Len(commitInput), j \in 1..Len(commitInput) :
           i # j => Leaf(commitInput[i]) # Leaf(commitInput[j]))
    => \A q \in CommitInputs :
          (/\ q # commitInput
           /\ Len(q) = Len(commitInput)
           /\ {q[i] : i \in 1..Len(q)} = {commitInput[i] : i \in 1..Len(q)})
          => CalculateTransactionRoot(q) # commitRoot

\* the root of three transactions has been computed, the odd third leaf
\* paired with itself, and differs from the root of their reversal
C15_Witness ==
    /\ commitInput = <<Tx(1, ALICE), Tx(2, ALICE), Tx(3, ALICE)>>
    /\ commitRoot = Keccak(Keccak(Leaf(Tx(1, ALICE)) \o Leaf(Tx(2, ALICE)))
                           \o Keccak(Leaf(Tx(3, ALICE)) \o Leaf(Tx(3, ALICE))))
    /\ commitRoot # CalculateTransactionRoot(<<Tx(3, ALICE), Tx(2, ALICE), Tx(1, ALICE)>>)

(***************************************************************************)
(* Properties of fraud-proof verification, under LedgerSpec.               *)
(***************************************************************************)

\* C16: a challenge is accepted only if the disputed transaction is in the
\* challenged batch: some Merkle membership proof leads from the proof's
\* txHash to the batch's header.transactionRoot.
C16_InclusionRequired ==
    [][\A n \in Slots, fp \in FraudProofs :
          (receipt'.reason = "ok" /\ CallSubmitChallenge(BOB, n, fp))
          => \E siblings \in UNION {[1..k -> {SibRoot, PreRoot, FraudRoot, ExtRoot}] :
                                      k \in 0..2} :
                VerifyMerkleProof(<<fp.txHash>> \o siblings,
                                  batches[n].header.transactionRoot) = "true"]_vars

(***************************************************************************)
(* Properties of getBatchStatus, under ConcurrentSpec.                     *)
(***************************************************************************)

\* C17: getBatchStatus on the initialized Sequencer with a number above
\* batchNumber returns null without an error, does not read the ledger and
\* changes nothing else.
C17_StatusNotFound ==
    [][\A n \in StatusQueries :
          (initialized /\ n > batchNumber /\ GetBatchStatus(n))
          => /\ statusResult' = [value |-> "null", ledgerRead |-> FALSE]
             /\ UNCHANGED <<now, ledgerVars, receipt, seqVars, callVars,
                            adminResult>>]_vars

\* null has been returned while transactions are pending
C17_Witness ==
    /\ initialized
    /\ statusResult = [value |-> "null", ledgerRead |-> FALSE]
    /\ Len(pendingTransactions) > 0

(***************************************************************************)
(* Properties of the Mempool, under Spec.                                  *)
(***************************************************************************)

\* C18: while no addTransaction call is in progress at most BATCH_SIZE
\* transactions are pending, and every batch the Sequencer submits holds
\* exactly the first BATCH_SIZE pending transactions.
C18_MempoolCapacity ==
    /\ (\A c \in Calls : pc[c] = "idle") => Len(pendingTransactions) <= BATCH_SIZE
    /\ \A c \in Calls :
          pc[c] = "submitting"
          => /\ Len(pendingTransactions) >= BATCH_SIZE
             /\ inflight[c].transactions = SubSeq(pendingTransactions, 1, BATCH_SIZE)

\* C19: a challenge is accepted only if the execution witness of its fraud
\* proof, or the hash of that witness, is the digest recomputed from the
\* disputed transaction's fields and the pre-state root.
C19_ExecutionDigestChecked ==
    [][\A n \in Slots, fp \in FraudProofs :
          (receipt'.reason = "ok" /\ CallSubmitChallenge(BOB, n, fp))
          => LET digest == ExecutionHash(fp.txData, fp.stateProof.preStateRoot)
             IN  \/ fp.executionProof = digest
                 \/ Keccak(fp.executionProof) = digest]_vars

(***************************************************************************)
(* Properties of the admitted transactions, under ConcurrentSpec.  The     *)
(* admitted transactions are Tx(1, ALICE) to Tx(nextNonce - 1, ALICE), and *)
(* a batch holds a run of them.                                            *)
(***************************************************************************)

\* C20: every admitted transaction is in pendingTransactions or in a batch
\* of the Sequencer that the ledger has stored.
C20_NoTransactionLost ==
    LET N == nextNonce - 1
        run(a, b) == [k \in 1..(b - a + 1) |-> Tx(a + k - 1, ALICE)]
        accepted == {r \in (1..N) \X (1..N) :
                        /\ r[1] <= r[2]
                        /\ \E n \in 1..latestBatchNumber :
                              /\ batches[n].context.submitter = SEQ
                              /\ batches[n].header.transactionRoot =
                                    CalculateTransactionRoot(run(r[1], r[2]))}
    IN  \A i \in 1..N :
           \/ \E k \in 1..Len(pendingTransactions) :
                 pendingTransactions[k] = Tx(i, ALICE)
           \/ \E r \in accepted : r[1] <= i /\ i <= r[2]

(***************************************************************************)
(* Liveness of the pipeline, under LiveSpec.                               *)
(***************************************************************************)

\* C21: every transaction that is pending when the Mempool has reached
\* BATCH_SIZE and a batch has been assembled is eventually in a batch of
\* the Sequencer that the ledger has stored, for the first batch and for
\* the batches after it.
C21_BatchingLiveness ==
    \A i \in 1..MaxTx :
        (/\ \E c \in Calls : pc[c] = "submitting"
         /\ \E k \in 1..Len(pendingTransactions) : pendingTransactions[k] = Tx(i, ALICE))
        ~> (\E n \in 1..latestBatchNumber, a \in 1..i, b \in i..MaxTx :
               /\ batches[n].context.submitter = SEQ
               /\ batches[n].header.transactionRoot =
                     CalculateTransactionRoot([k \in 1..(b - a + 1) |-> Tx(a + k - 1, ALICE)]))

(***************************************************************************)
(* Further properties of the ledger, under LedgerSpec.                     *)
(***************************************************************************)

\* C22: a challenge against a stored batch inside its challenge period is
\* never refused with "Already challenged by this address": an accepted
\* challenge removes the batch it was made against, so the batch stored
\* under that number afterwards is one the address has not challenged.
C22_ChallengeRecordPerInstance ==
    [][\A n \in Slots, fp \in FraudProofs :
          (/\ 1 <= n /\ n <= latestBatchNumber
           /\ now <= batches[n].context.challengePeriodEnd
           /\ CallSubmitChallenge(BOB, n, fp))
          => receipt'.reason # "Already challenged by this address"]_vars

\* C23: finalizeBatch on a number under which no batch is stored, 0 or a
\* number above latestBatchNumber, is refused and sets no finalized flag.
C23_FinalizeOnlyStored ==
    [][\A n \in Slots :
          (~(1 <= n /\ n <= latestBatchNumber) /\ CallFinalizeBatch(BOB, n))
          => /\ receipt'.reason # "ok"
             /\ batches' = batches]_vars

\* C24: every batch stored under a number i from 1 to latestBatchNumber has
\* header.batchNumber = i and is not marked challenged, and every entry
\* above latestBatchNumber is empty.
C24_LedgerStore ==
    /\ \A i \in 1..latestBatchNumber :
          /\ batches[i].header.batchNumber = i
          /\ ~batches[i].challenged
    /\ \A j \in Slots : j > latestBatchNumber => batches[j] = EmptyBatch

\* batch 2 has been rolled back above a stored batch 1, then stored again
C24_Witness ==
    /\ <<2, BOB>> \in challenges
    /\ latestBatchNumber = 2
    /\ batches[2].header.batchNumber = 2
    /\ batches[1].header.batchNumber = 1

(***************************************************************************)
(* Further properties of calculateTransactionRoot, under CommitSpec.       *)
(***************************************************************************)

\* C25: the root of a non-empty list of transactions that pass
\* validateTransaction is the root of no other such list, longer, shorter
\* or of other content, repeated transactions allowed.
C25_CommitmentBinding ==
    (/\ commitRoot # NotComputed
     /\ commitInput # <<>>
     /\ \A i \in 1..Len(commitInput) : ValidateTransaction(commitInput[i]))
    => \A q \in UNION {[1..n -> {t \in CommitPool : ValidateTransaction(t)}] :
                         n \in 1..(MaxCommitLen + 1)} :
          q # commitInput => CalculateTransactionRoot(q) # commitRoot

=============================================================================
